---------------------------- MODULE Spec2Model ----------------------------
(***************************************************************************)
(* A model of the ledger pipeline of src/app.py: load_data (column-role    *)
(* inference, amount resolution, categorisation, sample fallback) and the  *)
(* "Ensure types" pass that follows it at module level.                     *)
(*                                                                         *)
(* Text is modelled by TLA+ strings, processed character by character.     *)
(* A number is a decimal m / 10^e kept in lowest form, so two numbers are  *)
(* equal exactly when their records are equal; binary floating-point       *)
(* rounding is not modelled.  The emoji that end the category labels of    *)
(* the source are left out of the label strings.                           *)
(***************************************************************************)
EXTENDS Integers, Sequences, FiniteSets, TLC

VARIABLES
    pc,             \* position of the run: "start", "loaded", "done", "aborted"
    uploaded_file,  \* the uploaded CSV table, or NoFile
    statement_csv,  \* the local file statement.csv, or NoFile
    raw,            \* the frame read_csv returned, NoFrame when none was read
    df,             \* the frame the pipeline works on / the ledger
    source,         \* the input load_data took: "uploaded", "statement.csv", "sample"
    roles,          \* the columns load_data resolved for each role
    err,            \* the exception that ended the run, "" when none
    cell,           \* numeric normaliser: the input cell
    num,            \* numeric normaliser: the result
    desc,           \* categoriser: the input description
    label,          \* categoriser: the result
    columns,        \* role inference: the raw column names
    inferred        \* role inference: the roles resolved for them

vars == <<pc, uploaded_file, statement_csv, source, raw, df, roles, err,
          cell, num, desc, label, columns, inferred>>

-----------------------------------------------------------------------------
(* Text *)

Char(s, i) == SubSeq(s, i, i)

\* str.lower() on one character, for the letters the model's texts use
LowerChar(c) ==
    CASE c = "A" -> "a" [] c = "B" -> "b" [] c = "C" -> "c" [] c = "D" -> "d"
      [] c = "E" -> "e" [] c = "F" -> "f" [] c = "G" -> "g" [] c = "H" -> "h"
      [] c = "I" -> "i" [] c = "J" -> "j" [] c = "K" -> "k" [] c = "L" -> "l"
      [] c = "M" -> "m" [] c = "N" -> "n" [] c = "O" -> "o" [] c = "P" -> "p"
      [] c = "Q" -> "q" [] c = "R" -> "r" [] c = "S" -> "s" [] c = "T" -> "t"
      [] c = "U" -> "u" [] c = "V" -> "v" [] c = "W" -> "w" [] c = "X" -> "x"
      [] c = "Y" -> "y" [] c = "Z" -> "z" [] c = "Ø" -> "ø"
      [] OTHER -> c

RECURSIVE Lower(_)
Lower(s) == IF s = "" THEN "" ELSE LowerChar(Char(s, 1)) \o Lower(SubSeq(s, 2, Len(s)))

\* Python's `sub in s`
Contains(s, sub) ==
    \E i \in 1..(Len(s) - Len(sub) + 1) : SubSeq(s, i, i + Len(sub) - 1) = sub

\* str.replace(pat, ''): the non-overlapping occurrences, left to right
RECURSIVE Remove(_, _)
Remove(s, pat) ==
    IF Len(s) < Len(pat) THEN s
    ELSE IF SubSeq(s, 1, Len(pat)) = pat
         THEN Remove(SubSeq(s, Len(pat) + 1, Len(s)), pat)
         ELSE Char(s, 1) \o Remove(SubSeq(s, 2, Len(s)), pat)

-----------------------------------------------------------------------------
(* Cells.  A cell of a frame is NaN, a number, a text, or (after            *)
(* to_datetime) a timestamp or NaT.                                        *)

NaN == [k |-> "nan", m |-> 0, e |-> 0, s |-> ""]
NaT == [k |-> "nat", m |-> 0, e |-> 0, s |-> ""]
Str(s) == [k |-> "str", m |-> 0, e |-> 0, s |-> s]
\* a calendar day (s) plus m nanoseconds
Timestamp(s, m) == [k |-> "date", m |-> m, e |-> 0, s |-> s]

RECURSIVE Num(_, _)
Num(m, e) ==
    IF e > 0 /\ m % 10 = 0 THEN Num(m \div 10, e - 1)
    ELSE [k |-> "num", m |-> m, e |-> e, s |-> ""]

RECURSIVE Pow10(_)
Pow10(n) == IF n = 0 THEN 1 ELSE 10 * Pow10(n - 1)

Max(a, b) == IF a >= b THEN a ELSE b

\* a - b on numbers
Minus(a, b) ==
    LET e == Max(a.e, b.e)
    IN  Num(a.m * Pow10(e - a.e) - b.m * Pow10(e - b.e), e)

IsNull(c) == c.k \in {"nan", "nat"}

-----------------------------------------------------------------------------
(* Numeric Normalizer: src/app.py lines 42-45 and 96-98 *)

Digits == {"0", "1", "2", "3", "4", "5", "6", "7", "8", "9"}

DigitVal(c) ==
    CASE c = "0" -> 0 [] c = "1" -> 1 [] c = "2" -> 2 [] c = "3" -> 3
      [] c = "4" -> 4 [] c = "5" -> 5 [] c = "6" -> 6 [] c = "7" -> 7
      [] c = "8" -> 8 [] c = "9" -> 9

DigitChar(d) == Char("0123456789", d + 1)

IsDigits(s) == \A i \in 1..Len(s) : Char(s, i) \in Digits

RECURSIVE DigitsVal(_)
DigitsVal(s) ==
    IF s = "" THEN 0
    ELSE DigitsVal(SubSeq(s, 1, Len(s) - 1)) * 10 + DigitVal(Char(s, Len(s)))

RECURSIVE NatToStr(_)
NatToStr(n) == IF n < 10 THEN DigitChar(n) ELSE NatToStr(n \div 10) \o DigitChar(n % 10)

RECURSIVE PadZeros(_, _)
PadZeros(s, width) == IF Len(s) >= width THEN s ELSE PadZeros("0" \o s, width)

\* Position of the first "." of s, 0 when it has none
FirstPoint(s) ==
    IF \E i \in 1..Len(s) : Char(s, i) = "."
    THEN CHOOSE i \in 1..Len(s) :
            Char(s, i) = "." /\ \A j \in 1..(i - 1) : Char(s, j) # "."
    ELSE 0

\* What pd.to_numeric(..., errors='coerce') makes of one text: a decimal
\* literal (optional sign, digits, at most one point, at least one digit) is
\* its value; "" and "nan" are NaN; anything else is coerced to NaN.
\* Exponent, hexadecimal and infinity literals are outside the texts modelled.
ParseDecimal(s) ==
    LET signed == s # "" /\ Char(s, 1) \in {"-", "+"}
        body   == IF signed THEN SubSeq(s, 2, Len(s)) ELSE s
        p      == FirstPoint(body)
        ip     == IF p = 0 THEN body ELSE SubSeq(body, 1, p - 1)
        fp     == IF p = 0 THEN "" ELSE SubSeq(body, p + 1, Len(body))
        mag    == DigitsVal(ip \o fp)
    IN  IF IsDigits(ip) /\ IsDigits(fp) /\ Len(ip) + Len(fp) >= 1
        THEN Num(IF signed /\ Char(s, 1) = "-" THEN 0 - mag ELSE mag, Len(fp))
        ELSE NaN

\* str() of a float64 value (repr: always a point, at least one decimal)
FormatNum(c) ==
    LET a    == IF c.m < 0 THEN 0 - c.m ELSE c.m
        ip   == NatToStr(a \div Pow10(c.e))
        fp   == IF c.e = 0 THEN "0" ELSE PadZeros(NatToStr(a % Pow10(c.e)), c.e)
    IN  (IF c.m < 0 THEN "-" ELSE "") \o ip \o "." \o fp

\* Series.astype(str) on one cell
AsTypeStr(c) ==
    CASE c.k = "str" -> c.s
      [] c.k = "nan" -> "nan"
      [] c.k = "num" -> FormatNum(c)
      [] c.k = "date" -> c.s
      [] OTHER -> "NaT"

\* clean with the .str.lower() step left out
clean_NoLower(c) ==
    Remove(Remove(Remove(Remove(AsTypeStr(c), ","), "$"), "kr"), " ")

\* the chain .str.lower().str.replace(',', '').str.replace('$', '')
\* .str.replace('kr', '').str.replace(' ', '') on one cell
clean(c) ==
    Remove(Remove(Remove(Remove(Lower(AsTypeStr(c)), ","), "$"), "kr"), " ")

\* pd.to_numeric(..., errors='coerce') on one cell
to_numeric(c) ==
    CASE c.k = "num" -> c
      [] c.k = "str" -> ParseDecimal(c.s)
      [] OTHER -> NaN

fillna0(c) == IF c.k = "nan" THEN Num(0, 0) ELSE c

\* pd.to_numeric(clean(x), errors='coerce').fillna(0) on one cell
NumericNormalizer(c) == fillna0(to_numeric(Str(clean(c))))

-----------------------------------------------------------------------------
(* The Numeric Normalizer on its own: SpecNum applies it to one cell.     *)

MaxTokens == 4

\* What an amount text is built from: digits, signs, the point, the
\* separators the normaliser strips, and "x" for a residue that is no number
AmountTokens == {"0", "1", "5", "-", "+", ".", ",", "$", "kr", "Kr", "KR", " ", "x"}

ExampleAmounts == {"1,234.50 kr", "-45", "", "nan", "500", "120.50", "$1,000", "- 4 5 kR"}

RECURSIVE TokenStrings(_)
TokenStrings(n) ==
    IF n = 0 THEN {""}
    ELSE LET prev == TokenStrings(n - 1)
         IN  prev \cup {s \o t : s \in prev, t \in AmountTokens}

AmountCells ==
    {Str(s) : s \in TokenStrings(MaxTokens) \cup ExampleAmounts}
        \cup {NaN, Num(500, 0), Num(12050, 2), Num(0 - 45, 0), Num(0, 0)}

Unused == "unused"

PipelineIdle ==
    /\ uploaded_file = Unused /\ statement_csv = Unused /\ source = Unused
    /\ raw = Unused
    /\ df = Unused /\ roles = Unused /\ err = ""

InitNum ==
    /\ pc = "cell"
    /\ cell \in AmountCells
    /\ num = Unused
    /\ desc = Unused /\ label = Unused
    /\ columns = Unused /\ inferred = Unused
    /\ PipelineIdle

Normalize ==
    /\ pc = "cell"
    /\ num' = NumericNormalizer(cell)
    /\ pc' = "normalized"
    /\ UNCHANGED <<uploaded_file, statement_csv, source, raw, df, roles, err,
                   cell, desc, label, columns, inferred>>

NextNum == Normalize

SpecNum == InitNum /\ [][NextNum]_vars

\* The number an amount text denotes once its commas, "$", "kr" (any case)
\* and spaces are dropped, read in a single left-to-right pass; 0 when what
\* is left is no number.  st = <<sign, mantissa, decimals, point seen,
\* digits seen, sign seen, well-formed>>.
RECURSIVE Denoted(_, _)
Denoted(s, st) ==
    IF s = ""
    THEN IF st[7] /\ st[5] >= 1 THEN Num(st[1] * st[2], st[3]) ELSE Num(0, 0)
    ELSE LET c    == Char(s, 1)
             rest == SubSeq(s, 2, Len(s))
         IN  IF c \in {",", "$", " "} THEN Denoted(rest, st)
             ELSE IF c \in {"k", "K"} /\ rest # "" /\ Char(rest, 1) \in {"r", "R"}
             THEN Denoted(SubSeq(rest, 2, Len(rest)), st)
             ELSE IF c \in Digits
             THEN Denoted(rest, <<st[1], st[2] * 10 + DigitVal(c),
                                  IF st[4] THEN st[3] + 1 ELSE st[3],
                                  st[4], st[5] + 1, st[6], st[7]>>)
             ELSE IF c = "." /\ ~st[4]
             THEN Denoted(rest, <<st[1], st[2], st[3], TRUE, st[5], st[6], st[7]>>)
             ELSE IF c \in {"-", "+"} /\ ~st[4] /\ ~st[6] /\ st[5] = 0
             THEN Denoted(rest, <<IF c = "-" THEN 0 - 1 ELSE 1, st[2], st[3],
                                  st[4], st[5], TRUE, st[7]>>)
             ELSE Num(0, 0)

DenotedValue(c) ==
    CASE c.k = "num" -> c
      [] c.k = "str" -> Denoted(c.s, <<1, 0, 0, FALSE, 0, FALSE, TRUE>>)
      [] OTHER -> Num(0, 0)

\* C6: the Numeric Normalizer returns, for every amount text built from
\* digits, a leading sign, a point, commas, "$", "kr" in any case and spaces,
\* the number left once those separators are removed (the minus sign kept);
\* a number passes through; an empty text, a missing value, "nan" and any
\* text with a non-numeric residue give 0.
C6_NormalizerValue == pc = "normalized" => num = DenotedValue(cell)

\* a negative amount written with a thousands separator and the currency code
C6_Witness ==
    /\ pc = "normalized"
    /\ cell.k = "str" /\ Contains(cell.s, "-") /\ Contains(cell.s, ",")
    /\ Contains(Lower(cell.s), "kr")
    /\ num.m < 0

-----------------------------------------------------------------------------
(* Categorizer: src/app.py lines 61-72 *)

SavingsBoth == <<"kontoregulering", "mobil overføring">>
GroceryWords == {"meny", "rema", "kiwi", "bunnpris", "coop", "joker", "dagligvare",
                 "extra", "spar"}
DiningWords == {"mcd", "burger", "sushi", "pizza", "restaurant", "cafe", "starbucks",
                "boba", "thai", "vaffel", "bakeri", "espresso", "tea"}
TransportWords == {"ruter", "vipps:ruter", "vy", "flytoget", "uber", "taxi", "bolt",
                   "parkering", "easypark", "apcoa", "voi", "ryde", "dott", "buss"}
EntertainmentWords == {"netflix", "hbo", "spotify", "kino", "steam", "playstation",
                       "bio", "disney"}
BillsWords == {"telia", "telenor", "nte", "strøm", "leie", "husleie", "forsikring",
               "tryg"}
ShoppingWords == {"klarna", "hm", "zara", "elkjøp", "power", "ikea", "clas ohlson",
                  "normal", "apotek", "vitus", "blomster"}
IncomeWords == {"lønn", "salary", "deposit", "overføring innland", "vipps",
                "straksoverføring"}

\* any(x in desc for x in words)
AnyIn(d, words) == \E x \in words : Contains(d, x)

\* categorize with the restaurant rule tested before the grocery rule
categorize_DiningFirst(c) ==
    LET d == Lower(AsTypeStr(c))
    IN  IF Contains(d, SavingsBoth[1]) /\ Contains(d, SavingsBoth[2]) THEN "Savings"
        ELSE IF AnyIn(d, DiningWords) THEN "Food & Dining"
        ELSE IF AnyIn(d, GroceryWords) THEN "Groceries"
        ELSE IF AnyIn(d, TransportWords) THEN "Transport"
        ELSE IF AnyIn(d, EntertainmentWords) THEN "Entertainment"
        ELSE IF AnyIn(d, BillsWords) THEN "Bills & Utilities"
        ELSE IF AnyIn(d, ShoppingWords) THEN "Shopping"
        ELSE IF AnyIn(d, IncomeWords) THEN "Income/Transfer"
        ELSE "Other"

\* categorize(desc) on one cell of the Description column
categorize(c) ==
    LET d == Lower(AsTypeStr(c))
    IN  IF Contains(d, SavingsBoth[1]) /\ Contains(d, SavingsBoth[2]) THEN "Savings"
        ELSE IF AnyIn(d, GroceryWords) THEN "Groceries"
        ELSE IF AnyIn(d, DiningWords) THEN "Food & Dining"
        ELSE IF AnyIn(d, TransportWords) THEN "Transport"
        ELSE IF AnyIn(d, EntertainmentWords) THEN "Entertainment"
        ELSE IF AnyIn(d, BillsWords) THEN "Bills & Utilities"
        ELSE IF AnyIn(d, ShoppingWords) THEN "Shopping"
        ELSE IF AnyIn(d, IncomeWords) THEN "Income/Transfer"
        ELSE "Other"

-----------------------------------------------------------------------------
(* The Categorizer on its own: SpecCat applies it to one description.      *)

MaxWords == 2

DescWords == {"Rema 1000", "KIWI", "Sushi", "Restaurant", "Ruter", "Netflix", "Steam",
              "Telenor", "Strøm", "IKEA", "Lønn", "Vipps", "Kontoregulering",
              "Mobil overføring", "XYZCORP PURCHASE", "Kort"}

RECURSIVE Phrases(_)
Phrases(n) ==
    IF n = 1 THEN DescWords
    ELSE LET prev == Phrases(n - 1)
         IN  prev \cup {s \o " " \o w : s \in prev, w \in DescWords}

DescCells == {Str(s) : s \in Phrases(MaxWords) \cup {""}} \cup {NaN, Num(1000, 0)}

InitCat ==
    /\ pc = "desc"
    /\ desc \in DescCells
    /\ label = Unused
    /\ cell = Unused /\ num = Unused
    /\ columns = Unused /\ inferred = Unused
    /\ PipelineIdle

Categorize ==
    /\ pc = "desc"
    /\ label' = categorize(desc)
    /\ pc' = "categorized"
    /\ UNCHANGED <<uploaded_file, statement_csv, source, raw, df, roles, err,
                   cell, num, desc, columns, inferred>>

NextCat == Categorize

SpecCat == InitCat /\ [][NextCat]_vars

\* The rules in their order, each with its label
RuleOrder == <<"Savings", "Groceries", "Food & Dining", "Transport", "Entertainment",
               "Bills & Utilities", "Shopping", "Income/Transfer">>

\* Whether the rule at position i of RuleOrder matches the lowercased text d
RuleMatches(i, d) ==
    CASE i = 1 -> \A j \in 1..2 : Contains(d, SavingsBoth[j])
      [] i = 2 -> AnyIn(d, GroceryWords)
      [] i = 3 -> AnyIn(d, DiningWords)
      [] i = 4 -> AnyIn(d, TransportWords)
      [] i = 5 -> AnyIn(d, EntertainmentWords)
      [] i = 6 -> AnyIn(d, BillsWords)
      [] i = 7 -> AnyIn(d, ShoppingWords)
      [] i = 8 -> AnyIn(d, IncomeWords)

MatchingRules(c) ==
    LET d == Lower(AsTypeStr(c))
    IN  {i \in 1..Len(RuleOrder) : RuleMatches(i, d)}

\* C7: the label is that of the earliest rule of the fixed order that
\* matches the lowercased description; Savings is returned only when both of
\* its substrings occur; a description matching no rule, a null one
\* included, is labelled "Other".
C7_FirstMatchWins ==
    pc = "categorized" =>
        LET ms == MatchingRules(desc)
        IN  /\ ms = {} => label = "Other"
            /\ ms # {} => \E i \in ms : /\ \A j \in ms : i <= j
                                        /\ label = RuleOrder[i]
            /\ label = "Savings" => /\ Contains(Lower(desc.s), "kontoregulering")
                                    /\ Contains(Lower(desc.s), "mobil overføring")
            /\ desc = NaN => label = "Other"

\* a description with a grocery keyword and a restaurant keyword
C7_Witness ==
    /\ pc = "categorized"
    /\ {2, 3} \subseteq MatchingRules(desc)
    /\ label = "Groceries"

-----------------------------------------------------------------------------
(* Frames.  A frame is a sequence of columns, each a name, a dtype          *)
(* ("object", "float64", "datetime64"; int64 is not told from float64) and  *)
(* its cells.  Column names of a frame just read are distinct and non-empty *)
(* (read_csv sees to both); renaming may make two columns share a name.     *)

\* Python's None for a column name
None == ""

Column(name, dtype, cells) == [name |-> name, dtype |-> dtype, cells |-> cells]

Names(f) == [i \in DOMAIN f |-> f[i].name]

\* How many columns of frame f are called n
Count(f, n) == Cardinality({i \in DOMAIN f : f[i].name = n})

\* df[n], for a name that exactly one column has
Col(f, n) == f[CHOOSE i \in DOMAIN f : f[i].name = n]

\* df[n] = col: in place when the column exists, appended otherwise
SetCol(f, n, col) ==
    IF \E i \in DOMAIN f : f[i].name = n
    THEN [i \in DOMAIN f |-> IF f[i].name = n THEN col ELSE f[i]]
    ELSE Append(f, col)

WithNames(f, names) == [i \in DOMAIN f |-> [f[i] EXCEPT !.name = names[i]]]

\* next((c for c in names if c meets the condition), dflt), the names that
\* meet the condition given as the set matching
FirstMatch(names, matching, dflt) ==
    IF \E i \in DOMAIN names : names[i] \in matching
    THEN names[CHOOSE i \in DOMAIN names :
                  names[i] \in matching /\ \A j \in 1..(i - 1) : names[j] \notin matching]
    ELSE dflt

\* the values pd.read_csv takes for missing
NaValues == {"", "nan", "NaN", "NA", "N/A", "n/a", "null", "NULL", "None", "#N/A"}

\* pd.read_csv on a table of texts: a column whose every cell is a number or
\* missing becomes float64, any other column keeps its texts (object)
read_csv(file) ==
    [i \in DOMAIN file.header |->
        LET texts   == file.cols[i]
            numeric == \A j \in DOMAIN texts :
                          texts[j] \in NaValues \/ ParseDecimal(texts[j]) # NaN
        IN  Column(file.header[i],
                   IF numeric THEN "float64" ELSE "object",
                   [j \in DOMAIN texts |->
                       IF texts[j] \in NaValues THEN NaN
                       ELSE IF numeric THEN ParseDecimal(texts[j])
                       ELSE Str(texts[j])])]

-----------------------------------------------------------------------------
(* Column roles: src/app.py lines 24-34, 52-53 and 57-59, on names alone   *)

\* The column names of the tables the pipeline is run on
ColNames == {"Date", "Description", "Credit", "Debit", "Category"}

\* The column names role inference is applied to on its own
HeaderNames == {"Transaction Date", "Payment", "Merchant Name", "Deposit Date",
                "Category", "Amount", "Credit", "Belop"}

\* Every column name of the model, raw or renamed
KnownNames == ColNames \cup HeaderNames \cup {"Date", "Description", "Amount", "Category"}

\* The conditions of the generator expressions of lines 24, 27, 33, 34, 57
IsDateName(c) == Contains(Lower(c), "date") \/ Contains(Lower(c), "time")
IsDescName(c) ==
    Contains(Lower(c), "desc") \/ Contains(Lower(c), "merchant") \/ Contains(Lower(c), "name")
IsReceiveName(c) ==
    Contains(Lower(c), "receive") \/ Contains(Lower(c), "credit") \/ Contains(Lower(c), "deposit")
IsAmountName(c) == Lower(c) \in {"amount", "debit", "withdraw", "payment"}
IsCatName(c) == Contains(Lower(c), "cat")

\* The known names that meet each condition (evaluated once)
DateNames == {c \in KnownNames : IsDateName(c)}
DescNames == {c \in KnownNames : IsDescName(c)}
ReceiveNames == {c \in KnownNames : IsReceiveName(c)}
AmountNames == {c \in KnownNames : IsAmountName(c)}
CatNames == {c \in KnownNames : IsCatName(c)}

\* line 24
date_col(names) == FirstMatch(names, DateNames, names[1])

\* line 27
desc_col(names) ==
    FirstMatch(names, DescNames, IF Len(names) > 2 THEN names[3] ELSE None)

\* line 30: rename(columns={date_col: 'Date', desc_col: 'Description'}); when
\* both are the same column the dict keeps one key, with the later value
RenameBasics(names) ==
    [i \in DOMAIN names |->
        IF names[i] = desc_col(names) THEN "Description"
        ELSE IF names[i] = date_col(names) THEN "Date"
        ELSE names[i]]

\* line 33, on the names after line 30
receive_col(names1) == FirstMatch(names1, ReceiveNames, None)

\* line 34, on the names after line 30
amount_col(names1) == FirstMatch(names1, AmountNames, None)

\* line 37
DualPath(names1) == receive_col(names1) # None /\ amount_col(names1) # None

\* line 52
target_amt(names1) ==
    IF amount_col(names1) # None THEN amount_col(names1)
    ELSE IF Len(names1) > 1 THEN names1[2] ELSE None

\* the names after line 49 (a column Amount is set) or line 53 (a rename)
NamesAfterAmount(names1) ==
    IF DualPath(names1)
    THEN IF \E i \in DOMAIN names1 : names1[i] = "Amount" THEN names1
         ELSE Append(names1, "Amount")
    ELSE [i \in DOMAIN names1 |->
             IF names1[i] = target_amt(names1) THEN "Amount" ELSE names1[i]]

\* line 57, on the names after the amount step
cat_col(names2) == FirstMatch(names2, CatNames, None)

\* The roles load_data resolves for a list of raw column names
ResolvedRoles(names) ==
    LET names1 == RenameBasics(names)
    IN  [date     |-> date_col(names),
         desc     |-> desc_col(names),
         credit   |-> receive_col(names1),
         debit    |-> amount_col(names1),
         target   |-> IF DualPath(names1) THEN None ELSE target_amt(names1),
         category |-> cat_col(NamesAfterAmount(names1)),
         dual     |-> DualPath(names1)]

-----------------------------------------------------------------------------
(* load_data, src/app.py lines 10-85, and the pass of lines 93-98          *)

NoFile == [header |-> <<>>, cols |-> <<>>]
NoFrame == <<>>

\* DualColumn with the subtraction the wrong way round: amount - receive
DualColumn_Swapped(f, rc, ac) ==
    LET norm(col) == Column(col.name, "float64",
                            [j \in DOMAIN col.cells |-> NumericNormalizer(col.cells[j])])
        g == [i \in DOMAIN f |-> IF f[i].name \in {rc, ac} THEN norm(f[i]) ELSE f[i]]
        r == Col(g, rc).cells
        a == Col(g, ac).cells
    IN  SetCol(g, "Amount",
               Column("Amount", "float64", [j \in DOMAIN r |-> Minus(a[j], r[j])]))

\* lines 44-49: both columns normalised in place, then Amount = receive - amount
DualColumn(f, rc, ac) ==
    LET norm(col) == Column(col.name, "float64",
                            [j \in DOMAIN col.cells |-> NumericNormalizer(col.cells[j])])
        g == [i \in DOMAIN f |-> IF f[i].name \in {rc, ac} THEN norm(f[i]) ELSE f[i]]
        r == Col(g, rc).cells
        a == Col(g, ac).cells
    IN  SetCol(g, "Amount",
               Column("Amount", "float64", [j \in DOMAIN r |-> Minus(r[j], a[j])]))

\* lines 36-53
ResolveAmount(f1) ==
    IF DualPath(Names(f1))
    THEN DualColumn(f1, receive_col(Names(f1)), amount_col(Names(f1)))
    ELSE WithNames(f1, NamesAfterAmount(Names(f1)))

\* lines 57-74: the frame and the exception raised, "" when none.  With no
\* column Description, df['Description'] raises KeyError; with two of them it
\* is a frame, whose apply() result cannot be set as a column (ValueError).
ResolveCategory(f2) ==
    LET cc == cat_col(Names(f2))
    IN  IF cc # None
        THEN [df  |-> WithNames(f2, [i \in DOMAIN f2 |->
                                        IF f2[i].name = cc THEN "Category" ELSE f2[i].name]),
              err |-> ""]
        ELSE IF Count(f2, "Description") = 0 THEN [df |-> f2, err |-> "KeyError"]
        ELSE IF Count(f2, "Description") > 1 THEN [df |-> f2, err |-> "ValueError"]
        ELSE [df  |-> Append(f2, Column("Category", "object",
                        [j \in DOMAIN Col(f2, "Description").cells |->
                            Str(categorize(Col(f2, "Description").cells[j]))])),
              err |-> ""]

\* lines 21-76, for the frame read
Normalized(f0) == ResolveCategory(ResolveAmount(WithNames(f0, RenameBasics(Names(f0)))))

\* lines 79-85
SampleData ==
    <<Column("Date", "object",
             <<Str("2023-12-01"), Str("2023-12-02"), Str("2023-12-05"),
               Str("2023-12-08"), Str("2023-12-10")>>),
      Column("Description", "object",
             <<Str("Grocery Store"), Str("Salary"), Str("Netflix"),
               Str("Gas Station"), Str("Restaurant")>>),
      Column("Category", "object",
             <<Str("Groceries"), Str("Income"), Str("Entertainment"),
               Str("Transport"), Str("Food & Dining")>>),
      Column("Amount", "float64",
             <<Num(0 - 150, 0), Num(3000, 0), Num(0 - 15, 0), Num(0 - 45, 0),
               Num(0 - 60, 0)>>)>>

\* Whether pd.to_datetime can parse the text: the ISO form YYYY-MM-DD; any
\* other text of the model is no date, and pd.to_datetime raises on it
IsIsoDate(s) ==
    /\ Len(s) = 10
    /\ \A i \in {1, 2, 3, 4, 6, 7, 9, 10} : Char(s, i) \in Digits
    /\ Char(s, 5) = "-" /\ Char(s, 8) = "-"

\* ToDatetime that coerces a value that is a timestamp already to NaT
ToDatetime_NoPassThrough(c) ==
    CASE c.k = "str" -> Timestamp(c.s, 0)
      [] c.k = "num" -> Timestamp("1970-01-01", c.m \div Pow10(c.e))
      [] OTHER -> NaT

\* pd.to_datetime on one cell: a text is parsed, a number counts nanoseconds
\* from the epoch, a missing value is NaT
ToDatetime(c) ==
    CASE c.k = "str" -> Timestamp(c.s, 0)
      [] c.k = "num" -> LET a  == IF c.m < 0 THEN 0 - c.m ELSE c.m
                            ns == a \div Pow10(c.e)
                        IN  IF c.m < 0 /\ ns > 0
                            THEN Timestamp("1969-12-31", 0 - ns)
                            ELSE Timestamp("1970-01-01", ns)
      [] c.k = "nan" -> NaT
      [] OTHER -> c

\* lines 96-98 on the column Amount
AmountToNumeric(col) ==
    Column(col.name, "float64",
           [j \in DOMAIN col.cells |->
               IF col.dtype = "object"
               THEN fillna0(to_numeric(Str(clean(col.cells[j]))))
               ELSE fillna0(to_numeric(col.cells[j]))])

\* lines 93-98: the frame and the exception raised, "" when none.
\* df['Date'] and df['Amount'] raise KeyError when there is no such column;
\* with two columns of the name df['Date'] is a frame pd.to_datetime cannot
\* assemble (ValueError) and df['Amount'] a frame without .dtype
\* (AttributeError); a text that is no date makes pd.to_datetime raise.
EnsureTypes(f) ==
    IF Count(f, "Date") = 0 THEN [df |-> f, err |-> "KeyError"]
    ELSE IF Count(f, "Date") > 1 THEN [df |-> f, err |-> "ValueError"]
    ELSE IF \E j \in DOMAIN Col(f, "Date").cells :
                /\ Col(f, "Date").cells[j].k = "str"
                /\ ~IsIsoDate(Col(f, "Date").cells[j].s)
    THEN [df |-> f, err |-> "ValueError"]
    ELSE LET d == Col(f, "Date")
             g == SetCol(f, "Date",
                         Column("Date", "datetime64",
                                [j \in DOMAIN d.cells |-> ToDatetime(d.cells[j])]))
         IN  IF Count(g, "Amount") = 0 THEN [df |-> g, err |-> "KeyError"]
             ELSE IF Count(g, "Amount") > 1 THEN [df |-> g, err |-> "AttributeError"]
             ELSE [df |-> SetCol(g, "Amount", AmountToNumeric(Col(g, "Amount"))),
                   err |-> ""]

\* ChosenInput that looks for the local file before the upload
ChosenInput_LocalFirst(up, loc) ==
    IF loc # NoFile THEN "statement.csv"
    ELSE IF up # NoFile THEN "uploaded"
    ELSE "sample"

\* lines 12-21 and 78: which input load_data works on
ChosenInput(up, loc) ==
    IF up # NoFile THEN "uploaded"
    ELSE IF loc # NoFile THEN "statement.csv"
    ELSE "sample"

-----------------------------------------------------------------------------
(* The pipeline: one run of the script on an upload and a local file.      *)

MaxCols == 4
MaxRows == 2

\* The texts a column of each name may hold; a column of a table holds
\* consecutive texts of its cycle, one per row
CellTexts(name) ==
    CASE name = "Date"        -> <<"2023-12-01", "", "soon">>
      [] name = "Description" -> <<"Rema 1000", "">>
      [] name = "Credit"      -> <<"500", "", "1,234.50 kr">>
      [] name = "Debit"       -> <<"120.50", "(45)", "">>
      [] name = "Category"    -> <<"Food", "">>

Headers(names, n) ==
    {h \in UNION {[1..k -> names] : k \in 1..n} :
        \A i, j \in DOMAIN h : i # j => h[i] # h[j]}

\* The table with header h and n rows whose column i starts at text first[i]
Table(h, n, first) ==
    [header |-> h,
     cols   |-> [i \in DOMAIN h |->
                    LET texts == CellTexts(h[i])
                    IN  [r \in 1..n |-> texts[((first[i] + r - 2) % Len(texts)) + 1]]]]

\* The starting texts of the columns of a table with header h
Firsts(h) ==
    {first \in [DOMAIN h -> 1..3] : \A i \in DOMAIN h : first[i] <= Len(CellTexts(h[i]))}

LocalStatement ==
    [header |-> <<"Date", "Description", "Amount">>,
     cols   |-> <<<<"2023-12-01">>, <<"Kiwi">>, <<"-45">>>>]

NoRoles == [date |-> None, desc |-> None, credit |-> None, debit |-> None,
            target |-> None, category |-> None, dual |-> FALSE]

FunctionsIdle ==
    /\ cell = Unused /\ num = Unused /\ desc = Unused /\ label = Unused
    /\ columns = Unused /\ inferred = Unused

Init ==
    /\ pc = "start"
    /\ \/ uploaded_file = NoFile
       \/ \E h \in Headers(ColNames, MaxCols), n \in 1..MaxRows :
             \E first \in Firsts(h) : uploaded_file = Table(h, n, first)
    /\ statement_csv \in {NoFile, LocalStatement}
    /\ source = ""
    /\ raw = NoFrame /\ df = NoFrame /\ roles = NoRoles /\ err = ""
    /\ FunctionsIdle

\* load_data(uploaded_file), lines 10-85: the input taken, the frame read,
\* the frame returned, the roles resolved and the exception raised
load_data(up, loc) ==
    LET src == ChosenInput(up, loc)
        f0  == read_csv(IF src = "uploaded" THEN up ELSE loc)
        r   == Normalized(f0)
    IN  IF src = "sample"
        THEN [source |-> src, raw |-> NoFrame, df |-> SampleData, roles |-> NoRoles,
              err |-> ""]
        ELSE [source |-> src, raw |-> f0, df |-> r.df,
              roles |-> ResolvedRoles(Names(f0)), err |-> r.err]

\* the call df = load_data(uploaded_file) of line 91
LoadData ==
    /\ pc = "start"
    /\ \E r \in {load_data(uploaded_file, statement_csv)} :
          /\ source' = r.source
          /\ raw' = r.raw
          /\ df' = r.df
          /\ roles' = r.roles
          /\ err' = r.err
          /\ pc' = IF r.err = "" THEN "loaded" ELSE "aborted"
    /\ UNCHANGED <<uploaded_file, statement_csv, cell, num, desc, label,
                   columns, inferred>>

\* the "Ensure types" pass, lines 93-98
FinalPass ==
    /\ pc = "loaded"
    /\ \E r \in {EnsureTypes(df)} :
          /\ df' = r.df
          /\ err' = r.err
          /\ pc' = IF r.err = "" THEN "done" ELSE "aborted"
    /\ UNCHANGED <<uploaded_file, statement_csv, source, raw, roles,
                   cell, num, desc, label, columns, inferred>>

Next == LoadData \/ FinalPass

Spec == Init /\ [][Next]_vars

-----------------------------------------------------------------------------
(* Role inference on its own: SpecCols resolves the roles of one header.   *)

MaxHeader == 3

InitCols ==
    /\ pc = "names"
    /\ columns \in Headers(HeaderNames, MaxHeader)
    /\ inferred = Unused
    /\ cell = Unused /\ num = Unused /\ desc = Unused /\ label = Unused
    /\ PipelineIdle

InferRoles ==
    /\ pc = "names"
    /\ inferred' = ResolvedRoles(columns)
    /\ pc' = "inferred"
    /\ UNCHANGED <<uploaded_file, statement_csv, source, raw, df, roles, err,
                   cell, num, desc, label, columns>>

NextCols == InferRoles

SpecCols == InitCols /\ [][NextCols]_vars

\* The inference of each role from the raw names alone, first match in
\* column order, one role not looking at another
ReferenceRoles(names) ==
    [date     |-> FirstMatch(names, DateNames, names[1]),
     desc     |-> FirstMatch(names, DescNames, IF Len(names) > 2 THEN names[3] ELSE None),
     credit   |-> FirstMatch(names, ReceiveNames, None),
     debit    |-> FirstMatch(names, AmountNames, None),
     category |-> FirstMatch(names, CatNames, None)]

\* C4: for every list of raw column names the roles the pipeline uses are
\* those of the reference inference on the raw names, each role resolved
\* independently of the others.
C4_RolesIndependent ==
    pc = "inferred" =>
        /\ inferred.date = ReferenceRoles(columns).date
        /\ inferred.desc = ReferenceRoles(columns).desc
        /\ inferred.credit = ReferenceRoles(columns).credit
        /\ inferred.debit = ReferenceRoles(columns).debit
        /\ inferred.category = ReferenceRoles(columns).category

-----------------------------------------------------------------------------
(* Claims about the pipeline *)

\* the CSV texts of the column called name in the file read
InputFile == IF source = "uploaded" THEN uploaded_file ELSE statement_csv
FileCol(file, name) == file.cols[CHOOSE i \in DOMAIN file.header : file.header[i] = name]

RECURSIVE SumCells(_)
SumCells(cells) ==
    IF cells = <<>> THEN Num(0, 0)
    ELSE Minus(SumCells(Tail(cells)), Num(0 - Head(cells).m, Head(cells).e))

Canonical == {"Date", "Description", "Amount", "Category"}

\* C1: for every raw table with a header row the pipeline (load_data, then
\* the final pass) completes with a ledger; no exception ends it.
C1_NeverAborts == pc # "aborted"

\* C2: every row of every ledger produced has a non-null date, description,
\* amount and category.
C2_NoNulls ==
    pc = "done" =>
        \A n \in Canonical :
            /\ Count(df, n) = 1
            /\ \A j \in DOMAIN Col(df, n).cells : ~IsNull(Col(df, n).cells[j])

\* C3: in every ledger Amount is negative for an outflow and positive for
\* an inflow: a row whose debit-role cell is a positive magnitude (nothing
\* credited) has a negative Amount, a row whose credit-role cell is positive
\* (nothing debited) a positive one, on the dual-column path and on the
\* single-column fallback alike.
C3_SignConvention ==
    (pc = "done" /\ source # "sample" /\ roles.debit # None) =>
        \A j \in DOMAIN Col(df, "Amount").cells :
            LET d == NumericNormalizer(Col(raw, roles.debit).cells[j])
                c == IF roles.credit # None
                     THEN NumericNormalizer(Col(raw, roles.credit).cells[j])
                     ELSE Num(0, 0)
                a == Col(df, "Amount").cells[j]
            IN  /\ (d.m > 0 /\ c.m = 0) => a.m < 0
                /\ (c.m > 0 /\ d.m = 0) => a.m > 0

\* C5: when load_data resolves both a credit and a debit column, every
\* row's Amount is N(credit cell) - N(debit cell), N the Numeric Normalizer
\* on the cell's text, when load_data returns and still after the final pass.
C5_DualNetting ==
    (pc \in {"loaded", "done"} /\ roles.dual) =>
        /\ Count(df, "Amount") = 1
        /\ \A j \in DOMAIN Col(df, "Amount").cells :
              Col(df, "Amount").cells[j] =
                  Minus(NumericNormalizer(Str(FileCol(InputFile, roles.credit)[j])),
                        NumericNormalizer(Str(FileCol(InputFile, roles.debit)[j])))

\* credit "500" and debit "120.50" net to 379.50 in the final ledger
C5_Witness ==
    /\ pc = "done" /\ roles.dual
    /\ \E j \in DOMAIN Col(df, "Amount").cells :
          /\ FileCol(InputFile, roles.credit)[j] = "500"
          /\ FileCol(InputFile, roles.debit)[j] = "120.50"
          /\ Col(df, "Amount").cells[j] = Num(37950, 2)

\* C8: with a category column in the source table the ledger's Category is
\* that column's values, untouched by the categorizer; with none it is the
\* categorizer's label of the row's Description.
C8_CategoryVerbatim ==
    (pc = "done" /\ source # "sample") =>
        LET supplied == FirstMatch(Names(raw), CatNames, None)
        IN  /\ Count(df, "Category") = 1
            /\ supplied # None =>
                  Col(df, "Category").cells = Col(raw, supplied).cells
            /\ supplied = None =>
                  /\ Count(df, "Description") = 1
                  /\ \A j \in DOMAIN Col(df, "Category").cells :
                        Col(df, "Category").cells[j] =
                            Str(categorize(Col(df, "Description").cells[j]))

\* C9: an uploaded table is the input whenever there is one; failing that
\* the local file when it exists; failing both, and only then, the sample
\* ledger, which is no error, has 5 rows and amounts summing to 2730.
C9_InputPrecedence ==
    pc # "start" =>
        /\ uploaded_file # NoFile =>
              source = "uploaded" /\ raw = read_csv(uploaded_file)
        /\ (uploaded_file = NoFile /\ statement_csv # NoFile) =>
              source = "statement.csv" /\ raw = read_csv(statement_csv)
        /\ (uploaded_file = NoFile /\ statement_csv = NoFile) =>
              /\ source = "sample" /\ pc # "aborted" /\ err = ""
              /\ \A i \in DOMAIN df : Len(df[i].cells) = 5
              /\ SumCells(Col(df, "Amount").cells) = Num(2730, 0)
        /\ source = "sample" => (uploaded_file = NoFile /\ statement_csv = NoFile)

\* the sample ledger, returned with neither input there, after the final pass
C9_Witness ==
    /\ pc = "done" /\ source = "sample"
    /\ uploaded_file = NoFile /\ statement_csv = NoFile
    /\ Len(Col(df, "Amount").cells) = 5
    /\ SumCells(Col(df, "Amount").cells) = Num(2730, 0)

\* C10: the final pass applied to a ledger it produced changes nothing:
\* same columns, same dtypes, same Date and Amount cells, and no exception.
C10_FinalPassIdempotent ==
    pc = "done" => EnsureTypes(df) = [df |-> df, err |-> ""]

\* a ledger of the single-column fallback whose textual amount was cleaned
C10_Witness ==
    /\ pc = "done" /\ source = "uploaded" /\ ~roles.dual
    /\ \E j \in DOMAIN Col(df, "Amount").cells :
          /\ Col(df, "Amount").cells[j] = Num(123450, 2)
          /\ Col(df, "Date").cells[j].k = "date"

=============================================================================
